---------------------------- MODULE Spec2Model ----------------------------
(***************************************************************************)
(* Model of thelittlehackers/utils/photo_utils.py: the Exif tag extractor  *)
(* __extract_exif_tags and the capture-time resolver                       *)
(* get_photo_capture_time.                                                 *)
(*                                                                         *)
(* Python strings are sequences of one-character strings, so that          *)
(* datetime.strptime, str.strip, str.split and int() are computed on the   *)
(* characters of the tag values.  The three ValueError sites of the code   *)
(* are told apart by their messages, as the specification names them:      *)
(* InvalidArgument (line 84), MalformedData (line 137) and MissingData     *)
(* (line 140).                                                             *)
(***************************************************************************)
EXTENDS Integers, Sequences, FiniteSets, TLC

(***************************************************************************)
(* Values of the 'EXIF DateTimeOriginal' tag fed to the resolver.          *)
(***************************************************************************)
DT_Exact ==
    <<"2", "0", "2", "3", ":", "0", "7", ":", "0", "4", " ", "1", "5", ":", "3", "0", ":", "0", "0">>

DT_YearEnd ==
    <<"2", "0", "2", "3", ":", "1", "2", ":", "3", "1", " ", "2", "3", ":", "5", "9", ":", "5", "9">>

DT_LeapDay ==
    <<"2", "0", "2", "4", ":", "0", "2", ":", "2", "9", " ", "0", "0", ":", "0", "0", ":", "0", "0">>

DT_Dash ==
    <<"2", "0", "2", "3", "-", "0", "7", "-", "0", "4", " ", "1", "5", ":", "3", "0", ":", "0", "0">>

DT_ShortFields ==
    <<"2", "0", "2", "3", ":", "7", ":", "4", " ", "5", ":", "3", ":", "0">>

DT_TwoSpaces ==
    <<"2", "0", "2", "3", ":", "0", "7", ":", "0", "4", " ", " ", "1", "5", ":", "3", "0", ":", "0", "0">>

DT_Tab ==
    <<"2", "0", "2", "3", ":", "0", "7", ":", "0", "4", "\t", "1", "5", ":", "3", "0", ":", "0", "0">>

DT_SpaceDay ==
    <<"2", "0", "2", "3", ":", "0", "7", ":", " ", "4", " ", "1", "5", ":", "3", "0", ":", "0", "0">>

DT_Feb30 ==
    <<"2", "0", "2", "3", ":", "0", "2", ":", "3", "0", " ", "1", "5", ":", "3", "0", ":", "0", "0">>

DT_Feb29_1900 ==
    <<"1", "9", "0", "0", ":", "0", "2", ":", "2", "9", " ", "1", "2", ":", "0", "0", ":", "0", "0">>

DT_Second60 ==
    <<"2", "0", "2", "3", ":", "0", "7", ":", "0", "4", " ", "1", "5", ":", "3", "0", ":", "6", "0">>

DT_Hour24 ==
    <<"2", "0", "2", "3", ":", "0", "7", ":", "0", "4", " ", "2", "4", ":", "3", "0", ":", "0", "0">>

DT_Month13 ==
    <<"2", "0", "2", "3", ":", "1", "3", ":", "0", "4", " ", "1", "5", ":", "3", "0", ":", "0", "0">>

DT_Day00 ==
    <<"2", "0", "2", "3", ":", "0", "7", ":", "0", "0", " ", "1", "5", ":", "3", "0", ":", "0", "0">>

DT_Year0 ==
    <<"0", "0", "0", "0", ":", "0", "7", ":", "0", "4", " ", "1", "5", ":", "3", "0", ":", "0", "0">>

DT_Year3 ==
    <<"0", "2", "3", ":", "0", "7", ":", "0", "4", " ", "1", "5", ":", "3", "0", ":", "0", "0">>

DT_Trailing ==
    <<"2", "0", "2", "3", ":", "0", "7", ":", "0", "4", " ", "1", "5", ":", "3", "0", ":", "0", "0", " ">>

DT_Leading ==
    <<" ", "2", "0", "2", "3", ":", "0", "7", ":", "0", "4", " ", "1", "5", ":", "3", "0", ":", "0", "0">>

DT_NoTime ==
    <<"2", "0", "2", "3", ":", "0", "7", ":", "0", "4">>

DT_Empty ==
    <<>>

DateStrings ==
    {DT_Exact,
     DT_YearEnd,
     DT_LeapDay,
     DT_Dash,
     DT_ShortFields,
     DT_TwoSpaces,
     DT_Tab,
     DT_SpaceDay,
     DT_Feb30,
     DT_Feb29_1900,
     DT_Second60,
     DT_Hour24,
     DT_Month13,
     DT_Day00,
     DT_Year0,
     DT_Year3,
     DT_Trailing,
     DT_Leading,
     DT_NoTime,
     DT_Empty}

(***************************************************************************)
(* Values of the 'EXIF OffsetTimeOriginal' tag fed to the resolver.        *)
(***************************************************************************)
OF_Plus0200 ==
    <<"+", "0", "2", ":", "0", "0">>

OF_Minus0530 ==
    <<"-", "0", "5", ":", "3", "0">>

OF_Plus2359 ==
    <<"+", "2", "3", ":", "5", "9">>

OF_Minus2359 ==
    <<"-", "2", "3", ":", "5", "9">>

OF_Minus0000 ==
    <<"-", "0", "0", ":", "0", "0">>

OF_Padded ==
    <<" ", "+", "0", "7", ":", "0", "0", " ">>

OF_NoSign ==
    <<"0", "2", ":", "0", "0">>

OF_LetterSign ==
    <<"X", "0", "5", ":", "3", "0">>

OF_ShortFields ==
    <<"+", "2", ":", "0">>

OF_InnerMinus ==
    <<"+", "-", "2", ":", "0", "0">>

OF_DoubleMinus ==
    <<"-", "-", "2", ":", "3", "0">>

OF_InnerSpace ==
    <<"+", " ", "2", ":", " ", "3", "0">>

OF_Underscore ==
    <<"+", "1", "_", "0", ":", "0", "0">>

OF_Minutes90 ==
    <<"+", "0", "0", ":", "9", "0">>

OF_Plus2400 ==
    <<"+", "2", "4", ":", "0", "0">>

OF_Minus2400 ==
    <<"-", "2", "4", ":", "0", "0">>

OF_Plus2360 ==
    <<"+", "2", "3", ":", "6", "0">>

OF_NoColon ==
    <<"+", "0", "2", "0", "0">>

OF_ThreeParts ==
    <<"+", "0", "2", ":", "0", "0", ":", "0", "0">>

OF_Semicolon ==
    <<"+", "0", "2", ";", "0", "0">>

OF_BadUnderscore ==
    <<"+", "1", "_", "_", "0", ":", "0", "0">>

OF_Zulu ==
    <<"Z">>

OF_Blank ==
    <<" ", " ">>

OF_Empty ==
    <<>>

OF_HugeHours ==
    <<"+", "2", "4", "0", "0", "0", "0", "0", "0", "0", "0", "0", ":", "0", "0">>

OF_HugeNegHours ==
    <<"+", "-", "2", "3", "9", "9", "9", "9", "9", "9", "9", "7", "7", ":", "0", "0">>

OF_EdgeHours ==
    <<"+", "2", "3", "9", "9", "9", "9", "9", "9", "9", "9", "9", ":", "5", "9">>

OF_HugeCancel ==
    <<"+", "2", "4", "0", "0", "0", "0", "0", "0", "0", "0", "0", ":", "-", "1", "4", "4", "0", "0", "0", "0", "0", "0", "0", "0", "0", "0">>

OffsetStrings ==
    {OF_Plus0200,
     OF_Minus0530,
     OF_Plus2359,
     OF_Minus2359,
     OF_Minus0000,
     OF_Padded,
     OF_NoSign,
     OF_LetterSign,
     OF_ShortFields,
     OF_InnerMinus,
     OF_DoubleMinus,
     OF_InnerSpace,
     OF_Underscore,
     OF_Minutes90,
     OF_Plus2400,
     OF_Minus2400,
     OF_Plus2360,
     OF_NoColon,
     OF_ThreeParts,
     OF_Semicolon,
     OF_BadUnderscore,
     OF_Zulu,
     OF_Blank,
     OF_Empty,
     OF_HugeHours,
     OF_HugeNegHours,
     OF_EdgeHours,
     OF_HugeCancel}

(***************************************************************************)
(* Python values.                                                          *)
(***************************************************************************)
None == [kind |-> "None"]

\* An exifread IfdTag; str(tag) is its printable text.
IfdTag(printable) == [kind |-> "IfdTag", printable |-> printable]

\* str(exif_datetime), str(exif_offset)
Str(tag) == tag.printable

\* Truthy as it would be were the tag values plain strings: an empty text
\* counts as a missing tag.
Truthy_NonEmptyText(value) == value # None /\ Str(value) # <<>>

\* `if exif_datetime:` / `if exif_offset:`.  dict.get gives None for a
\* missing key; an IfdTag defines neither __bool__ nor __len__, so every
\* tag object is true whatever its text.
Truthy(value) == value # None

Returned(value) == [kind |-> "return", value |-> value]

Raised(error) == [kind |-> "raise", error |-> error]

ValueError == Raised("ValueError")

OverflowError == Raised("OverflowError")

(***************************************************************************)
(* Characters and the string methods the code uses.                        *)
(***************************************************************************)
Digits == {"0", "1", "2", "3", "4", "5", "6", "7", "8", "9"}

DigitValue ==
    [c \in Digits |->
        CASE c = "0" -> 0 [] c = "1" -> 1 [] c = "2" -> 2 [] c = "3" -> 3
          [] c = "4" -> 4 [] c = "5" -> 5 [] c = "6" -> 6 [] c = "7" -> 7
          [] c = "8" -> 8 [] c = "9" -> 9]

DigitRange(lo, hi) == {c \in Digits : DigitValue[c] \in lo..hi}

Whitespace == {" ", "\t", "\n"}

Min(S) == CHOOSE n \in S : \A m \in S : n <= m

\* s[1:]
DropFirst(s) == IF s = <<>> THEN <<>> ELSE Tail(s)

\* str.strip()
RECURSIVE LStrip(_)
LStrip(s) ==
    IF s # <<>> /\ Head(s) \in Whitespace THEN LStrip(Tail(s)) ELSE s

RECURSIVE RStrip(_)
RStrip(s) ==
    IF s # <<>> /\ s[Len(s)] \in Whitespace
    THEN RStrip(SubSeq(s, 1, Len(s) - 1))
    ELSE s

Strip(s) == RStrip(LStrip(s))

\* str.startswith("+")
StartsWithPlus(s) == s # <<>> /\ s[1] = "+"

\* str.split(":"): the parts between the colons, empty parts included.
RECURSIVE Split(_)
Split(s) ==
    LET colons == {i \in 1..Len(s) : s[i] = ":"}
    IN  IF colons = {}
        THEN <<s>>
        ELSE LET i == Min(colons)
             IN  <<SubSeq(s, 1, i - 1)>> \o Split(SubSeq(s, i + 1, Len(s)))

(***************************************************************************)
(* int(text), base 10: surrounding whitespace, an optional sign, then      *)
(* digits with single underscores between them.  Python integers are       *)
(* unbounded; the value is kept as sign * (quot * unit + rem) with         *)
(* 0 <= rem < unit, the unit being the number of hours (24) or of minutes  *)
(* (1440) of a day, which is all timedelta needs of it.                    *)
(***************************************************************************)
IsIntLiteral(text) ==
    LET t == Strip(text)
        body == IF t # <<>> /\ t[1] \in {"+", "-"} THEN Tail(t) ELSE t
    IN  /\ body # <<>>
        /\ \A i \in 1..Len(body) : body[i] \in Digits \cup {"_"}
        /\ body[1] \in Digits
        /\ body[Len(body)] \in Digits
        /\ \A i \in 1..(Len(body) - 1) : ~(body[i] = "_" /\ body[i + 1] = "_")

RECURSIVE DivMod(_, _, _, _)
DivMod(body, unit, quot, rem) ==
    IF body = <<>>
    THEN [quot |-> quot, rem |-> rem]
    ELSE IF Head(body) = "_"
    THEN DivMod(Tail(body), unit, quot, rem)
    ELSE LET r == rem * 10 + DigitValue[Head(body)]
         IN  DivMod(Tail(body), unit, quot * 10 + (r \div unit), r % unit)

PyInt(text, unit) ==
    LET t == Strip(text)
        signed == t[1] \in {"+", "-"}
        body == IF signed THEN Tail(t) ELSE t
        magnitude == DivMod(body, unit, 0, 0)
    IN  [sign |-> IF t[1] = "-" THEN -1 ELSE 1,
         quot |-> magnitude.quot,
         rem  |-> magnitude.rem]

(***************************************************************************)
(* timedelta(hours=hours, minutes=minutes), timedelta * sign and           *)
(* timezone(tz_offset).  A timedelta is normalised to days and a           *)
(* non-negative remainder (here in minutes); its days must stay within     *)
(* +/- 999999999, else OverflowError.  A timezone wants an offset strictly *)
(* between -24 hours and 24 hours, else ValueError.                        *)
(***************************************************************************)
MaxDeltaDays == 999999999

MinutesPerDay == 1440

Normalised(days, mins) ==
    LET d == days + (mins \div MinutesPerDay)
        m == mins % MinutesPerDay
    IN  IF d < -MaxDeltaDays \/ d > MaxDeltaDays
        THEN OverflowError
        ELSE Returned([days |-> d, minutes |-> m])

Timedelta(hours, minutes) ==
    Normalised(hours.sign * hours.quot + minutes.sign * minutes.quot,
               hours.sign * hours.rem * 60 + minutes.sign * minutes.rem)

TimedeltaTimes(delta, sign) ==
    Normalised(sign * delta.days, sign * delta.minutes)

Timezone(delta) ==
    IF delta.days = 0 \/ (delta.days = -1 /\ delta.minutes > 0)
    THEN Returned([kind |-> "timezone",
                   utcoffset |-> delta.days * MinutesPerDay + delta.minutes])
    ELSE ValueError

(***************************************************************************)
(* datetime.strptime(text, "%Y:%m:%d %H:%M:%S").  The format is compiled   *)
(* to a regular expression, one group per directive, the blank of the      *)
(* format becoming \s+; alternatives are tried in order, with              *)
(* backtracking, from the first character of the text.                     *)
(***************************************************************************)
Group(alternatives) == [kind |-> "group", alternatives |-> alternatives]

Literal(c) == [kind |-> "literal", alternatives |-> <<<<{c}>>>>]

Spaces == [kind |-> "spaces", alternatives |-> <<>>]

\* %Y  (\d\d\d\d)
DirectiveY == Group(<< <<Digits, Digits, Digits, Digits>> >>)

\* %m  (1[0-2]|0[1-9]|[1-9])
DirectiveMonth ==
    Group(<< <<{"1"}, DigitRange(0, 2)>>,
             <<{"0"}, DigitRange(1, 9)>>,
             <<DigitRange(1, 9)>> >>)

\* %d  (3[0-1]|[1-2]\d|0[1-9]|[1-9]| [1-9])
DirectiveD ==
    Group(<< <<{"3"}, DigitRange(0, 1)>>,
             <<DigitRange(1, 2), Digits>>,
             <<{"0"}, DigitRange(1, 9)>>,
             <<DigitRange(1, 9)>>,
             <<{" "}, DigitRange(1, 9)>> >>)

\* %H  (2[0-3]|[0-1]\d|\d)
DirectiveH ==
    Group(<< <<{"2"}, DigitRange(0, 3)>>,
             <<DigitRange(0, 1), Digits>>,
             <<Digits>> >>)

\* %M  ([0-5]\d|\d)
DirectiveM == Group(<< <<DigitRange(0, 5), Digits>>, <<Digits>> >>)

\* %S  (6[0-1]|[0-5]\d|\d)
DirectiveS ==
    Group(<< <<{"6"}, DigitRange(0, 1)>>,
             <<DigitRange(0, 5), Digits>>,
             <<Digits>> >>)

\* "%Y:%m:%d %H:%M:%S"
FormatRegex ==
    <<DirectiveY, Literal(":"), DirectiveMonth, Literal(":"), DirectiveD,
      Spaces,
      DirectiveH, Literal(":"), DirectiveM, Literal(":"), DirectiveS>>

MatchesAt(text, i, alternative) ==
    /\ i + Len(alternative) - 1 <= Len(text)
    /\ \A k \in 1..Len(alternative) : text[i + k - 1] \in alternative[k]

\* The number of whitespace characters of text from position i on.
RECURSIVE SpaceRun(_, _)
SpaceRun(text, i) ==
    IF i <= Len(text) /\ text[i] \in Whitespace
    THEN 1 + SpaceRun(text, i + 1)
    ELSE 0

\* The lengths an item of the expression can take at position i, in the
\* order the matcher tries them; -1 for an alternative that does not match.
Candidates(item, text, i) ==
    IF item.kind = "spaces"
    THEN LET run == SpaceRun(text, i) IN [n \in 1..run |-> run - n + 1]
    ELSE [n \in 1..Len(item.alternatives) |->
            IF MatchesAt(text, i, item.alternatives[n])
            THEN Len(item.alternatives[n])
            ELSE -1]

NoMatch == [ok |-> FALSE, end |-> 0, groups |-> <<>>]

\* The match of item k at position i with `length` characters, followed by
\* the match `found` of the items after it.
Extend(regex, text, i, k, length, found) ==
    IF ~found.ok
    THEN NoMatch
    ELSE [ok |-> TRUE,
          end |-> found.end,
          groups |-> IF regex[k].kind = "group"
                     THEN <<SubSeq(text, i, i + length - 1)>> \o found.groups
                     ELSE found.groups]

\* The first of two attempts that matched.
OrElse(first, second) == IF first.ok THEN first ELSE second

\* re.match from position i with the items k.. of the expression, the
\* candidates n.. of item k still to try: the position after the match
\* and the texts of the groups.
RECURSIVE RegexMatch(_, _, _, _, _)
RegexMatch(regex, text, i, k, n) ==
    IF k > Len(regex)
    THEN [ok |-> TRUE, end |-> i, groups |-> <<>>]
    ELSE LET lengths == Candidates(regex[k], text, i)
         IN  IF n > Len(lengths)
             THEN NoMatch
             ELSE IF lengths[n] < 0
             THEN RegexMatch(regex, text, i, k, n + 1)
             ELSE OrElse(Extend(regex, text, i, k, lengths[n],
                                RegexMatch(regex, text, i + lengths[n],
                                           k + 1, 1)),
                         RegexMatch(regex, text, i, k, n + 1))

\* int() of the text of a group: at most a leading blank and four digits.
RECURSIVE GroupValue(_, _)
GroupValue(text, acc) ==
    IF text = <<>>
    THEN acc
    ELSE IF Head(text) \in Digits
    THEN GroupValue(Tail(text), acc * 10 + DigitValue[Head(text)])
    ELSE GroupValue(Tail(text), acc)

IsLeap(year) == year % 4 = 0 /\ (year % 100 # 0 \/ year % 400 = 0)

DaysInMonth(year, month) ==
    IF month = 2
    THEN (IF IsLeap(year) THEN 29 ELSE 28)
    ELSE IF month \in {4, 6, 9, 11} THEN 30 ELSE 31

\* datetime.MINYEAR
MINYEAR == 1

Datetime(year, month, day, hour, minute, second, tzinfo) ==
    [kind |-> "datetime",
     year |-> year, month |-> month, day |-> day,
     hour |-> hour, minute |-> minute, second |-> second,
     tzinfo |-> tzinfo]

\* ValueError when the text does not match, when text is left over after
\* the match, or when the fields are no date and time (year 0, a day the
\* month does not have, a second of 60 or 61); else the naive datetime.
Strptime(text) ==
    LET found == RegexMatch(FormatRegex, text, 1, 1, 1)
    IN  IF ~found.ok
        THEN ValueError
        ELSE IF found.end # Len(text) + 1
        THEN ValueError
        ELSE LET year   == GroupValue(found.groups[1], 0)
                 month  == GroupValue(found.groups[2], 0)
                 day    == GroupValue(found.groups[3], 0)
                 hour   == GroupValue(found.groups[4], 0)
                 minute == GroupValue(found.groups[5], 0)
                 second == GroupValue(found.groups[6], 0)
             IN  IF \/ year < MINYEAR
                    \/ day > DaysInMonth(year, month)
                    \/ second > 59
                 THEN ValueError
                 ELSE Returned(Datetime(year, month, day,
                                        hour, minute, second, None))

(***************************************************************************)
(* The tag mapping exifread.process_file returns: a dict from tag name to  *)
(* IfdTag.                                                                 *)
(***************************************************************************)
Dict(items) == [kind |-> "dict", items |-> items]

Keys(mapping) == {item[1] : item \in mapping.items}

\* dict.get(key)
Get(mapping, key) ==
    IF key \in Keys(mapping)
    THEN (CHOOSE item \in mapping.items : item[1] = key)[2]
    ELSE None

DateTimeOriginal == "EXIF DateTimeOriginal"

OffsetTimeOriginal == "EXIF OffsetTimeOriginal"

TagMapping(datetime, offset) ==
    Dict({<<DateTimeOriginal, IfdTag(text)>> : text \in datetime}
         \cup {<<OffsetTimeOriginal, IfdTag(text)>> : text \in offset})

\* The photos of the model: an image whose Exif block holds the two tags,
\* one of them, or neither, and an image the decoder fails on.  Every date
\* text comes with no offset tag, a well-formed one and a malformed one;
\* every offset text comes with no date tag and two well-formed ones.
Photo(tags) == [corrupt |-> FALSE, tags |-> tags]

CorruptPhoto == [corrupt |-> TRUE, tags |-> Dict({})]

Photos ==
    {CorruptPhoto}
    \cup {Photo(TagMapping(datetime, offset)) :
            datetime \in {{}} \cup {{text} : text \in DateStrings},
            offset \in {{}, {OF_Plus0200}, {OF_NoColon}}}
    \cup {Photo(TagMapping(datetime, offset)) :
            datetime \in {{}, {DT_Exact}, {DT_YearEnd}},
            offset \in {{text} : text \in OffsetStrings}}

\* The arguments a caller passes as `file`.
Sources == {[kind |-> "Path"], [kind |-> "BytesIO"], [kind |-> "int"]}

\* exifread.process_file(stream): the tags of the image that starts at the
\* read position of the stream.  Away from the start of the image the
\* decoder finds no image header and returns an empty mapping.
ProcessFile(image, position) ==
    IF image.corrupt
    THEN Raised("DecoderError")
    ELSE IF position # 0
    THEN Returned(Dict({}))
    ELSE Returned(image.tags)

(***************************************************************************)
(* __extract_exif_tags, lines 77-89.                                       *)
(***************************************************************************)
\* SourceBranch with the buffer branch taken for anything that is no Path.
SourceBranch_DuckTyped(source) ==
    IF source.kind = "Path" THEN "path" ELSE "buffer"

\* The isinstance chain of lines 77, 80 and 83.
SourceBranch(source) ==
    CASE source.kind = "Path" -> "path"
      [] source.kind = "BytesIO" -> "buffer"
      [] OTHER -> "invalid"

\* SeekTarget without the seek: the read position stays where it was.
SeekTarget_NoSeek(position) == position

\* file.seek(0), line 81: the read position after the call.
SeekTarget(position) == 0

\* HandlesAfterWith for a handle closed by a plain close() after the
\* decoder call, which an exception skips.
HandlesAfterWith_NoFinally(open_count, in_flight) ==
    IF in_flight # None THEN open_count ELSE open_count - 1

\* Leaving the `with open(...) as handle` block of line 78 closes the
\* handle, whether the block ends normally or by an exception.
HandlesAfterWith(open_count, in_flight) == open_count - 1

(***************************************************************************)
(* get_photo_capture_time, lines 116-143.                                  *)
(***************************************************************************)
\* Sign with only "-" read as negative.
Sign_MinusOnly(offset_str) ==
    IF offset_str # <<>> /\ offset_str[1] = "-" THEN -1 ELSE 1

\* line 132
Sign(offset_str) == IF StartsWithPlus(offset_str) THEN 1 ELSE -1

\* line 133: hours, minutes = map(int, offset_str[1:].split(":"))
\* Unpacking anything but two parts, and int() of a part that is no
\* integer literal, raise ValueError.
HoursMinutes(offset_str) ==
    LET parts == Split(DropFirst(offset_str))
    IN  IF Len(parts) # 2
        THEN ValueError
        ELSE IF ~IsIntLiteral(parts[1]) \/ ~IsIntLiteral(parts[2])
        THEN ValueError
        ELSE Returned([hours   |-> PyInt(parts[1], 24),
                       minutes |-> PyInt(parts[2], MinutesPerDay)])

\* TzOffset with the sign applied to the hours alone.
TzOffset_SignOnHours(hours, minutes, sign) ==
    Timedelta([hours EXCEPT !.sign = sign * @], minutes)

\* line 134: tz_offset = timedelta(hours=hours, minutes=minutes) * sign
TzOffset(hours, minutes, sign) ==
    LET delta == Timedelta(hours, minutes)
    IN  IF delta.kind = "raise" THEN delta ELSE TimedeltaTimes(delta.value, sign)

\* lines 131-135: the aware capture time, or the exception raised.
WithOffset(naive_time, offset_tag) ==
    LET offset_str == Strip(Str(offset_tag))
        sign == Sign(offset_str)
        parsed == HoursMinutes(offset_str)
    IN  IF parsed.kind = "raise"
        THEN parsed
        ELSE LET tz_offset == TzOffset(parsed.value.hours,
                                       parsed.value.minutes, sign)
             IN  IF tz_offset.kind = "raise"
                 THEN tz_offset
                 ELSE LET tzinfo == Timezone(tz_offset.value)
                      IN  IF tzinfo.kind = "raise"
                          THEN tzinfo
                          ELSE Returned([naive_time EXCEPT
                                            !.tzinfo = tzinfo.value])

\* Except without the handler: the exception of the parser passes through.
Except_NoHandler(result) == result

\* lines 136-137: `except ValueError` replaces a ValueError raised in the
\* try block; any other exception passes through.
Except(result) ==
    IF result = ValueError THEN Raised("MalformedData") ELSE result

\* Missing with the strict flag ignored, either way.
Missing_NeverRaises(strict_flag) == Returned(None)

Missing_AlwaysRaises(strict_flag) == Raised("MissingData")

\* lines 139-141
Missing(strict_flag) ==
    IF strict_flag THEN Raised("MissingData") ELSE Returned(None)

\* lines 121-143 as one function of the tag mapping and the flag.
CaptureTime(mapping, strict_flag) ==
    LET datetime == Get(mapping, DateTimeOriginal)
        offset == Get(mapping, OffsetTimeOriginal)
    IN  IF Truthy(datetime)
        THEN LET naive == Strptime(Str(datetime))
             IN  IF naive.kind = "raise"
                 THEN Except(naive)
                 ELSE IF Truthy(offset)
                 THEN Except(WithOffset(naive.value, offset))
                 ELSE naive
        ELSE Missing(strict_flag)

(***************************************************************************)
(* Bounds of the model.                                                    *)
(***************************************************************************)
\* Calls of get_photo_capture_time in one behaviour.
MaxCalls == 2

\* The last read position of the byte buffer (0 is its start).
StreamEnd == 2

(***************************************************************************)
(* State.  One photo is on disk and in a byte buffer; a caller calls       *)
(* get_photo_capture_time over and over with any of the sources.           *)
(***************************************************************************)
VARIABLES
    photo,           \* the image the path and the buffer hold
    cursor,          \* read position of the byte buffer
    open_handles,    \* file handles open() returned and nobody closed
    pc,              \* position of the running call
    calls,           \* calls made so far
    file,            \* argument `file` of the call
    strict,          \* argument `strict` of the call
    in_flight,       \* exception travelling out of the with block, or None
    exif_tags,       \* local of both functions
    exif_datetime,   \* local, line 121
    exif_offset,     \* local, line 122
    capture_time,    \* local, lines 127, 135 and 141
    outcome,         \* what the call gave its caller
    opened,          \* open() calls of the running call
    decoded,         \* process_file calls of the running call
    lookups,         \* tag lookups of the running call
    offset_parsed,   \* the running call entered the block of line 129
    cursor_at_call   \* read position of the buffer when the call was made

vars ==
    <<photo, cursor, open_handles, pc, calls, file, strict, in_flight,
      exif_tags, exif_datetime, exif_offset, capture_time, outcome,
      opened, decoded, lookups, offset_parsed, cursor_at_call>>

locals == <<exif_tags, exif_datetime, exif_offset, capture_time>>

counters == <<opened, decoded, lookups, offset_parsed, cursor_at_call>>

world == <<photo, cursor, open_handles>>

Init ==
    /\ photo \in Photos
    /\ cursor \in 0..StreamEnd
    /\ open_handles = 0
    /\ pc = "idle"
    /\ calls = 0
    /\ file = None
    /\ strict = TRUE
    /\ in_flight = None
    /\ exif_tags = None
    /\ exif_datetime = None
    /\ exif_offset = None
    /\ capture_time = None
    /\ outcome = None
    /\ opened = 0
    /\ decoded = 0
    /\ lookups = 0
    /\ offset_parsed = FALSE
    /\ cursor_at_call = 0

\* The caller moves the read position of its buffer between two calls.
CallerSeek(position) ==
    /\ pc \in {"idle", "done"}
    /\ cursor # position
    /\ cursor' = position
    /\ UNCHANGED <<photo, open_handles, pc, calls, file, strict, in_flight,
                   locals, outcome, counters>>

\* get_photo_capture_time(source, flag) is entered, line 116.
Call(source, flag) ==
    /\ pc \in {"idle", "done"}
    /\ calls < MaxCalls
    /\ calls' = calls + 1
    /\ file' = source
    /\ strict' = flag
    /\ pc' = "extract"
    /\ in_flight' = None
    /\ exif_tags' = None
    /\ exif_datetime' = None
    /\ exif_offset' = None
    /\ capture_time' = None
    /\ outcome' = None
    /\ opened' = 0
    /\ decoded' = 0
    /\ lookups' = 0
    /\ offset_parsed' = FALSE
    /\ cursor_at_call' = cursor
    /\ UNCHANGED world

\* The call ends with an exception.
Raise(exception) ==
    /\ outcome' = exception
    /\ pc' = "done"

\* line 78: open(file, 'rb') gives a handle at the start of the file.
OpenFile ==
    /\ pc = "extract"
    /\ SourceBranch(file) = "path"
    /\ open_handles' = open_handles + 1
    /\ opened' = opened + 1
    /\ pc' = "process_handle"
    /\ UNCHANGED <<photo, cursor, calls, file, strict, in_flight, locals,
                   outcome, decoded, lookups, offset_parsed,
                   cursor_at_call>>

\* line 78: open() raises (no such file, no permission); no handle exists.
OpenFails ==
    /\ pc = "extract"
    /\ SourceBranch(file) = "path"
    /\ opened' = opened + 1
    /\ Raise(Raised("OSError"))
    /\ UNCHANGED <<world, calls, file, strict, in_flight, locals,
                   decoded, lookups, offset_parsed,
                   cursor_at_call>>

\* line 79: the decoder reads the handle inside the with block.
ProcessHandle ==
    /\ pc = "process_handle"
    /\ decoded' = decoded + 1
    /\ LET result == ProcessFile(photo, 0)
       IN  IF result.kind = "raise"
           THEN in_flight' = result /\ UNCHANGED exif_tags
           ELSE exif_tags' = result.value /\ UNCHANGED in_flight
    /\ pc' = "exit_with"
    /\ UNCHANGED <<world, calls, file, strict, exif_datetime, exif_offset,
                   capture_time, outcome, opened, lookups, offset_parsed,
                   cursor_at_call>>

\* line 78: the with block is left.
ExitWith ==
    /\ pc = "exit_with"
    /\ open_handles' = HandlesAfterWith(open_handles, in_flight)
    /\ IF in_flight # None
       THEN Raise(in_flight)
       ELSE pc' = "lookup" /\ UNCHANGED outcome
    /\ UNCHANGED <<photo, cursor, calls, file, strict, in_flight, locals,
                   counters>>

\* line 81: file.seek(0)
SeekBuffer ==
    /\ pc = "extract"
    /\ SourceBranch(file) = "buffer"
    /\ cursor' = SeekTarget(cursor)
    /\ pc' = "process_buffer"
    /\ UNCHANGED <<photo, open_handles, calls, file, strict, in_flight,
                   locals, outcome, counters>>

\* line 82: the decoder reads the buffer from its read position and
\* leaves the position wherever its last read ended.
ProcessBuffer(position) ==
    /\ pc = "process_buffer"
    /\ decoded' = decoded + 1
    /\ cursor' = position
    /\ LET result == ProcessFile(photo, cursor)
       IN  IF result.kind = "raise"
           THEN Raise(result) /\ UNCHANGED exif_tags
           ELSE exif_tags' = result.value /\ pc' = "lookup"
                /\ UNCHANGED outcome
    /\ UNCHANGED <<photo, open_handles, calls, file, strict, in_flight,
                   exif_datetime, exif_offset, capture_time,
                   opened, lookups, offset_parsed,
                   cursor_at_call>>

\* lines 83-87
RejectSource ==
    /\ pc = "extract"
    /\ SourceBranch(file) = "invalid"
    /\ Raise(Raised("InvalidArgument"))
    /\ UNCHANGED <<world, calls, file, strict, in_flight, locals, counters>>

\* lines 121-122
LookupTags ==
    /\ pc = "lookup"
    /\ exif_datetime' = Get(exif_tags, DateTimeOriginal)
    /\ exif_offset' = Get(exif_tags, OffsetTimeOriginal)
    /\ lookups' = lookups + 2
    /\ pc' = "branch"
    /\ UNCHANGED <<world, calls, file, strict, in_flight, exif_tags,
                   capture_time, outcome, opened, decoded, offset_parsed,
                   cursor_at_call>>

\* lines 124-127, 136-137
ParseDateTime ==
    /\ pc = "branch"
    /\ Truthy(exif_datetime)
    /\ LET result == Strptime(Str(exif_datetime))
       IN  IF result.kind = "raise"
           THEN Raise(Except(result)) /\ UNCHANGED capture_time
           ELSE capture_time' = result.value /\ pc' = "offset"
                /\ UNCHANGED outcome
    /\ UNCHANGED <<world, calls, file, strict, in_flight, exif_tags,
                   exif_datetime, exif_offset, counters>>

\* lines 138-141
MissingDateTime ==
    /\ pc = "branch"
    /\ ~Truthy(exif_datetime)
    /\ LET result == Missing(strict)
       IN  IF result.kind = "raise"
           THEN Raise(result) /\ UNCHANGED capture_time
           ELSE capture_time' = result.value /\ pc' = "return"
                /\ UNCHANGED outcome
    /\ UNCHANGED <<world, calls, file, strict, in_flight, exif_tags,
                   exif_datetime, exif_offset, counters>>

\* lines 129-137
ParseOffset ==
    /\ pc = "offset"
    /\ Truthy(exif_offset)
    /\ offset_parsed' = TRUE
    /\ LET result == WithOffset(capture_time, exif_offset)
       IN  IF result.kind = "raise"
           THEN Raise(Except(result)) /\ UNCHANGED capture_time
           ELSE capture_time' = result.value /\ pc' = "return"
                /\ UNCHANGED outcome
    /\ UNCHANGED <<world, calls, file, strict, in_flight, exif_tags,
                   exif_datetime, exif_offset, opened, decoded, lookups,
                   cursor_at_call>>

\* line 129, the offset tag missing
SkipOffset ==
    /\ pc = "offset"
    /\ ~Truthy(exif_offset)
    /\ pc' = "return"
    /\ UNCHANGED <<world, calls, file, strict, in_flight, locals, outcome,
                   counters>>

\* line 143
Return ==
    /\ pc = "return"
    /\ outcome' = Returned(capture_time)
    /\ pc' = "done"
    /\ UNCHANGED <<world, calls, file, strict, in_flight, locals, counters>>

Next ==
    \/ \E position \in 0..StreamEnd : CallerSeek(position)
    \/ \E source \in Sources, flag \in BOOLEAN : Call(source, flag)
    \/ OpenFile
    \/ OpenFails
    \/ ProcessHandle
    \/ ExitWith
    \/ SeekBuffer
    \/ \E position \in 0..StreamEnd : ProcessBuffer(position)
    \/ RejectSource
    \/ LookupTags
    \/ ParseDateTime
    \/ MissingDateTime
    \/ ParseOffset
    \/ SkipOffset
    \/ Return

Spec == Init /\ [][Next]_vars
(***************************************************************************)
(* The state the properties speak of.                                      *)
(***************************************************************************)
Done == pc = "done"

\* The call obtained a tag mapping from the extractor.
Extracted == Done /\ exif_tags # None

HasDate == Extracted /\ DateTimeOriginal \in Keys(exif_tags)

HasOffset == Extracted /\ OffsetTimeOriginal \in Keys(exif_tags)

DateText == Str(Get(exif_tags, DateTimeOriginal))

OffsetText == Str(Get(exif_tags, OffsetTimeOriginal))

MalformedData == Raised("MalformedData")

MissingData == Raised("MissingData")

InvalidArgument == Raised("InvalidArgument")

AllDigits(text, from, to) ==
    /\ from <= to
    /\ to <= Len(text)
    /\ \A i \in from..to : text[i] \in Digits

AllSpaces(text, from, to) ==
    /\ from <= to
    /\ to <= Len(text)
    /\ \A i \in from..to : text[i] \in Whitespace

ColonAt(text, i) == i <= Len(text) /\ text[i] = ":"

\* The decimal number written at positions from..to of text.
Number(text, from, to) == GroupValue(SubSeq(text, from, to), 0)

\* YYYY:MM:DD HH:MM:SS, read position by position.
ExactLayout(text) ==
    /\ Len(text) = 19
    /\ AllDigits(text, 1, 4) /\ ColonAt(text, 5)
    /\ AllDigits(text, 6, 7) /\ ColonAt(text, 8)
    /\ AllDigits(text, 9, 10) /\ text[11] = " "
    /\ AllDigits(text, 12, 13) /\ ColonAt(text, 14)
    /\ AllDigits(text, 15, 16) /\ ColonAt(text, 17)
    /\ AllDigits(text, 18, 19)

\* The fields of a text of the exact layout are a date and a time.
ExactFieldsValid(text) ==
    /\ Number(text, 1, 4) >= 1
    /\ Number(text, 6, 7) \in 1..12
    /\ Number(text, 9, 10) \in
         1..DaysInMonth(Number(text, 1, 4), Number(text, 6, 7))
    /\ Number(text, 12, 13) <= 23
    /\ Number(text, 15, 16) <= 59
    /\ Number(text, 18, 19) <= 59

ExactDatetime(text, tzinfo) ==
    Datetime(Number(text, 1, 4), Number(text, 6, 7), Number(text, 9, 10),
             Number(text, 12, 13), Number(text, 15, 16),
             Number(text, 18, 19), tzinfo)

\* The layout the parser takes: a four-digit year, ':', a month of one or
\* two digits, ':', a day of one or two digits or of a blank and a digit,
\* one or more whitespace characters, then hour, minute and second of one
\* or two digits each, separated by ':'.
AcceptedLayout(text) ==
    \E m \in 1..2, d \in 1..2, w \in 1..(Len(text) + 1),
       h \in 1..2, mi \in 1..2, sec \in 1..2 :
        LET month  == 6
            day    == month + m + 1
            blank  == day + d
            hour   == blank + w
            minute == hour + h + 1
            second == minute + mi + 1
        IN  /\ Len(text) = second + sec - 1
            /\ AllDigits(text, 1, 4) /\ ColonAt(text, 5)
            /\ AllDigits(text, month, month + m - 1)
            /\ ColonAt(text, day - 1)
            /\ \/ AllDigits(text, day, day + d - 1)
               \/ d = 2 /\ text[day] = " " /\ text[day + 1] \in Digits
            /\ AllSpaces(text, blank, blank + w - 1)
            /\ AllDigits(text, hour, hour + h - 1)
            /\ ColonAt(text, minute - 1)
            /\ AllDigits(text, minute, minute + mi - 1)
            /\ ColonAt(text, second - 1)
            /\ AllDigits(text, second, second + sec - 1)

\* A sign, "+" or "-", followed by HH:MM.
SignedClock(text) ==
    /\ Len(text) = 6
    /\ text[1] \in {"+", "-"}
    /\ AllDigits(text, 2, 3) /\ ColonAt(text, 4) /\ AllDigits(text, 5, 6)

\* SignedClock with an hour of 00..23 and a minute of 00..59.
ClockOffset(text) ==
    /\ SignedClock(text)
    /\ Number(text, 2, 3) <= 23
    /\ Number(text, 5, 6) <= 59

ClockMinutes(text) == Number(text, 2, 3) * 60 + Number(text, 5, 6)

\* digits ':' digits
PlainClock(text) ==
    \E colon \in 2..(Len(text) - 1) :
        /\ text[colon] = ":"
        /\ AllDigits(text, 1, colon - 1)
        /\ AllDigits(text, colon + 1, Len(text))

PlainClockMinutes(text) ==
    LET colon == CHOOSE i \in 1..Len(text) : text[i] = ":"
    IN  Number(text, 1, colon - 1) * 60 + Number(text, colon + 1, Len(text))

UtcOffset(minutes) == [kind |-> "timezone", utcoffset |-> minutes]

\* What the call gives on a buffer nobody has read yet.
OnFreshBuffer(image, strict_flag) ==
    LET tags == ProcessFile(image, 0)
    IN  IF tags.kind = "raise"
        THEN tags
        ELSE CaptureTime(tags.value, strict_flag)

(***************************************************************************)
(* Properties.                                                             *)
(***************************************************************************)

\* C1: a call with strict=True on a tag mapping without
\* 'EXIF DateTimeOriginal' ends with MissingData, whatever the
\* 'EXIF OffsetTimeOriginal' entry is; it neither returns nor reports
\* MalformedData.
C1_MissingDateStrict ==
    (Extracted /\ ~HasDate /\ strict) => outcome = MissingData

C1_Witness ==
    /\ Extracted /\ ~HasDate /\ strict
    /\ HasOffset /\ OffsetText = OF_NoColon
    /\ outcome = MissingData

\* C2: a call with strict=False on a tag mapping without
\* 'EXIF DateTimeOriginal' returns None and raises nothing, whatever the
\* offset entry is, and never enters the parsing of the offset tag.
C2_MissingDateLenient ==
    (Extracted /\ ~HasDate /\ ~strict) =>
        /\ outcome = Returned(None)
        /\ ~offset_parsed

C2_Witness ==
    /\ Extracted /\ ~HasDate /\ ~strict
    /\ HasOffset /\ OffsetText = OF_ThreeParts
    /\ outcome = Returned(None)

\* C3 as stated: a date tag whose text is not exactly YYYY:MM:DD HH:MM:SS
\* gives MalformedData for both values of strict, and strict changes the
\* outcome only when the date tag is missing.
C3_AsStated ==
    /\ (HasDate /\ ~ExactLayout(DateText)) => outcome = MalformedData
    /\ HasDate => outcome = CaptureTime(exif_tags, ~strict)

\* C3, amended: a date tag whose text is not of the layout the parser
\* takes (four-digit year, one- or two-digit month, day, hour, minute and
\* second, the day also as a blank and a digit, one or more whitespace
\* characters between date and time) gives MalformedData for both values
\* of strict, and strict changes the outcome only when the date tag is
\* missing.
C3_MalformedDate ==
    /\ (HasDate /\ ~AcceptedLayout(DateText)) => outcome = MalformedData
    /\ HasDate => outcome = CaptureTime(exif_tags, ~strict)

C3_Witness ==
    /\ HasDate /\ DateText = DT_Dash /\ ~strict
    /\ outcome = MalformedData

\* C4: with a well-formed date tag, an offset tag whose text is not a
\* sign followed by HH:MM gives MalformedData, never a timestamp.
C4_MalformedOffset ==
    (/\ HasDate
     /\ ExactLayout(DateText)
     /\ ExactFieldsValid(DateText)
     /\ HasOffset
     /\ ~SignedClock(Strip(OffsetText)))
        => outcome = MalformedData

\* C5: with a well-formed date tag and an offset tag sign HH:MM, the
\* timestamp returned has the calendar fields of the date tag and the
\* fixed offset sign * (HH hours + MM minutes), the minutes negated with
\* the hours.
C5_OffsetApplied ==
    (/\ HasDate
     /\ ExactLayout(DateText)
     /\ ExactFieldsValid(DateText)
     /\ HasOffset
     /\ ClockOffset(OffsetText))
        => outcome =
             Returned(ExactDatetime(DateText,
                UtcOffset(IF OffsetText[1] = "+"
                          THEN ClockMinutes(OffsetText)
                          ELSE -ClockMinutes(OffsetText))))

C5_Witness ==
    /\ HasDate /\ DateText = DT_Exact
    /\ HasOffset /\ OffsetText = OF_Minus0530
    /\ outcome = Returned(Datetime(2023, 7, 4, 15, 30, 0, UtcOffset(-330)))

\* C6: a timestamp returned is naive exactly when the tag mapping has no
\* 'EXIF OffsetTimeOriginal' entry, and it then has the fields of the
\* date tag.
C6_NaiveIffNoOffset ==
    (Done /\ outcome.kind = "return" /\ outcome.value # None) =>
        /\ (outcome.value.tzinfo = None) <=> ~HasOffset
        /\ (~HasOffset /\ ExactLayout(DateText)) =>
              outcome.value = ExactDatetime(DateText, None)

C6_Witness ==
    /\ HasDate /\ DateText = DT_Exact /\ ~HasOffset
    /\ outcome = Returned(Datetime(2023, 7, 4, 15, 30, 0, None))

\* C7: a source that is neither a Path nor a BytesIO ends the call with
\* InvalidArgument for both values of strict, and the call opens no file,
\* never invokes the decoder and looks up no tag.
C7_InvalidSource ==
    (pc # "idle" /\ file.kind \notin {"Path", "BytesIO"}) =>
        /\ pc \in {"extract", "done"}
        /\ opened = 0 /\ decoded = 0 /\ lookups = 0
        /\ open_handles = 0
        /\ exif_tags = None
        /\ Done => outcome = InvalidArgument

C7_Witness ==
    /\ Done /\ file.kind = "int" /\ ~strict
    /\ outcome = InvalidArgument

\* C8: at most one file handle is open at any point, and none is open
\* once a call has ended, however it ended.
C8_HandleClosed ==
    /\ open_handles <= 1
    /\ pc \in {"idle", "done"} => open_handles = 0

C8_Witness ==
    /\ Done /\ file.kind = "Path"
    /\ opened = 1 /\ decoded = 1
    /\ outcome = Raised("DecoderError")
    /\ open_handles = 0

\* C9: on a byte buffer the call gives what it gives on a fresh buffer of
\* the same bytes, wherever the read position was and after any earlier
\* calls.
C9_CursorIndependent ==
    (Done /\ file.kind = "BytesIO") => outcome = OnFreshBuffer(photo, strict)

C9_Witness ==
    /\ Done /\ file.kind = "BytesIO"
    /\ calls = 2 /\ cursor_at_call = StreamEnd
    /\ outcome.kind = "return" /\ outcome.value # None

\* C10: when the stripped offset text does not start with "+" and the
\* text after its first character is hours:minutes, the timestamp
\* returned carries the offset -(hours, minutes), also when that first
\* character is a digit or a letter.
C10_NegativeUnlessPlus ==
    (/\ Done /\ outcome.kind = "return" /\ outcome.value # None
     /\ HasOffset
     /\ Strip(OffsetText) # <<>>
     /\ Strip(OffsetText)[1] # "+"
     /\ PlainClock(DropFirst(Strip(OffsetText))))
        => outcome.value.tzinfo =
             UtcOffset(-PlainClockMinutes(DropFirst(Strip(OffsetText))))

C10_Witness ==
    /\ HasDate /\ DateText = DT_Exact
    /\ HasOffset /\ OffsetText = OF_NoSign
    /\ outcome = Returned(Datetime(2023, 7, 4, 15, 30, 0, UtcOffset(-120)))

=============================================================================
